---- MODULE Spec2Model ----
(***************************************************************************)
(* A model of src/bin/chaos-game.rs: the chaos game played on a triangle   *)
(* or a square, the four presets and the entry point that selects one.     *)
(*                                                                         *)
(* Numbers.  An f64 of the program is modelled exactly, as a polynomial in *)
(* the run's jump distance with integer coefficients: the sequence         *)
(* <<c0, c1, ..., cn>> is the number c0 + c1*d + ... + cn*d^n, where d is  *)
(* the jump_distance the preset passes to chaos_game.  Every vertex is a   *)
(* constant <<c0>>, and jump_towards raises the degree by one.  Floating   *)
(* point rounding is left out.  With distance 0.5 and vertices in 0..100   *)
(* the f64 arithmetic of the program is exact for more than forty jumps,   *)
(* far more than MaxIterations, and rounding to nearest never leaves an    *)
(* interval whose ends are representable.  With distance 0.66666666667     *)
(* the f64 results are rounded from the first jump on, and the model keeps *)
(* the exact polynomial: the value of such a coordinate is never read.     *)
(***************************************************************************)
EXTENDS Integers, Sequences, FiniteSets, TLC

VARIABLES
    args,            \* std::env::args(): the program name and its arguments
    iterations,      \* the iteration count main passes to the preset
    pc,              \* where the process is
    preset,          \* the preset function that is running
    polygon,         \* the Triangle or Quadrilateral the preset built
    points,          \* the candidate list the preset's closure draws from
    jump_distance,   \* the decimal digits of the preset's jump_distance
    prev_vertex,     \* the closure's captured prev_vertex
    new_vertex,      \* the closure's last drawn new_vertex
    draws,           \* draws made by the current call of the closure
    current_point,   \* chaos_game's current_point
    i,               \* iterations of chaos_game's for loop completed
    reference_point, \* chaos_game's reference_point
    output,          \* the lines printed to stdout
    refs,            \* the reference points the closure returned, in order
    calls,           \* the number of calls of the closure
    panic_message    \* the message of main's panic!

vars == <<args, iterations, pc, preset, polygon, points, jump_distance,
          prev_vertex, new_vertex, draws, current_point, i, reference_point,
          output, refs, calls, panic_message>>

\* The largest iteration count explored (ITERATIONS is 1000000 in the source).
MaxIterations == 3

\* The draw counter of one closure call saturates here ("this many or more").
MaxDraws == 2

Max(a, b) == IF a >= b THEN a ELSE b

Min(a, b) == IF a <= b THEN a ELSE b

Range(s) == {s[k] : k \in 1..Len(s)}

-----------------------------------------------------------------------------
(* f64 arithmetic, exact, on polynomials in the jump distance *)

Const(n) == <<n>>

Coef(p, k) == IF k <= Len(p) THEN p[k] ELSE 0

Add(p, q) == [k \in 1..Max(Len(p), Len(q)) |-> Coef(p, k) + Coef(q, k)]

Sub(p, q) == [k \in 1..Max(Len(p), Len(q)) |-> Coef(p, k) - Coef(q, k)]

RECURSIVE ConvSum(_, _, _, _)
ConvSum(p, q, k, j) ==
    IF j = 0 THEN 0
    ELSE Coef(p, j) * Coef(q, k - j + 1) + ConvSum(p, q, k, j - 1)

Mul(p, q) == [k \in 1..(Len(p) + Len(q) - 1) |-> ConvSum(p, q, k, k)]

\* x / 2.0; every number the program halves is an even integer constant
\* (0, 100, 150, 200 or 50), so the integer quotient is the exact one.
Half(p) == [k \in 1..Len(p) |-> p[k] \div 2]

\* The indeterminate: the f64 jump_distance handed to jump_towards.
Distance == <<0, 1>>

-----------------------------------------------------------------------------
(* Point *)

Point_new(x, y) == [x |-> x, y |-> y]

midpoint(self, other) ==
    LET x == Half(Add(self.x, other.x))
        y == Half(Add(self.y, other.y))
    IN  [x |-> x, y |-> y]

\* A slip of sign: 1.0 + distance where the source has 1.0 - distance.
jump_towards_overshoot(self, other, distance) ==
    LET x == Add(Mul(self.x, Add(Const(1), distance)), Mul(other.x, distance))
        y == Add(Mul(self.y, Add(Const(1), distance)), Mul(other.y, distance))
    IN  [x |-> x, y |-> y]

jump_towards(self, other, distance) ==
    LET x == Add(Mul(self.x, Sub(Const(1), distance)), Mul(other.x, distance))
        y == Add(Mul(self.y, Sub(Const(1), distance)), Mul(other.y, distance))
    IN  [x |-> x, y |-> y]

\* A Point variable that holds nothing yet.
NoPoint == [x |-> <<>>, y |-> <<>>]

-----------------------------------------------------------------------------
(* Triangle, Quadrilateral and the Polygon trait *)

Triangle_new(a, b, c) == [a |-> a, b |-> b, c |-> c]

new_equilateral(length) ==
    LET a == Point_new(Const(0), Const(0))
        b == Point_new(length, Const(0))
        c == Point_new(Half(length), length)
    IN  Triangle_new(a, b, c)

Quadrilateral_new(a, b, c, d) == [a |-> a, b |-> b, c |-> c, d |-> d]

square(length) ==
    LET a == Point_new(Const(0), Const(0))
        b == Point_new(length, Const(0))
        c == Point_new(length, length)
        d == Point_new(Const(0), length)
    IN  Quadrilateral_new(a, b, c, d)

Triangle_points(self) == <<self.a, self.b, self.c>>

Quadrilateral_points(self) == <<self.a, self.b, self.c, self.d>>

\* Polygon::points, dispatched on the implementing type.
Polygon_points(self) ==
    IF "d" \in DOMAIN self THEN Quadrilateral_points(self)
    ELSE Triangle_points(self)

\* A slip of index: the vertex after the next one.
next_point_index_skip(k, len) == (k + 2) % len

\* The index of the vertex paired with vertex k (k counts from 0).
next_point_index(k, len) == (k + 1) % len

medial_points(self) ==
    LET pts == Polygon_points(self)
    IN  [k \in 1..Len(pts) |->
            midpoint(pts[k], pts[next_point_index(k - 1, Len(pts)) + 1])]

\* A polygon variable that holds nothing yet.
NoPolygon == [a |-> NoPoint, b |-> NoPoint, c |-> NoPoint]

-----------------------------------------------------------------------------
(* main *)

\* The four selectors main recognizes.
Selectors == {"sierpinski-triangle", "square-one", "square-two", "vicsek"}

\* Values of the first argument that main does not recognize.
Unrecognized == {"foo", "Vicsek"}

\* The command lines explored: no argument, one argument, and one with a
\* second argument, which main never reads.
ArgVectors ==
    {<<"chaos-game">>}
        \cup {<<"chaos-game", s>> : s \in Selectors \cup Unrecognized}
        \cup {<<"chaos-game", "foo", "square-one">>}

\* Iterator::nth, counting from 0: Some(v) is <<v>> and None is <<>>.
nth(seq, n) == IF n < Len(seq) THEN <<seq[n + 1]>> ELSE <<>>

\* Two arms of the match with their calls swapped.
main_match_swapped(cmd) ==
    IF cmd = <<"sierpinski-triangle">> THEN "sierpinski_triangle"
    ELSE IF cmd = <<"square-one">> THEN "square_two"
    ELSE IF cmd = <<"square-two">> THEN "square_one"
    ELSE IF cmd = <<"vicsek">> THEN "vicsek_fractal"
    ELSE IF cmd = <<>> THEN "sierpinski_triangle"
    ELSE "panic"

\* The arm of main's match that is taken: the function it calls, or "panic".
main_match(cmd) ==
    IF cmd = <<"sierpinski-triangle">> THEN "sierpinski_triangle"
    ELSE IF cmd = <<"square-one">> THEN "square_one"
    ELSE IF cmd = <<"square-two">> THEN "square_two"
    ELSE IF cmd = <<"vicsek">> THEN "vicsek_fractal"
    ELSE IF cmd = <<>> THEN "sierpinski_triangle"
    ELSE "panic"

\* format!("{} is not yet implemented", unrecognized), as its two pieces.
panic_format(unrecognized) == <<unrecognized, " is not yet implemented">>

main_panic ==
    /\ pc = "main"
    /\ main_match(nth(args, 1)) = "panic"
    /\ panic_message' = panic_format(nth(args, 1)[1])
    /\ pc' = "panicked"
    /\ UNCHANGED <<args, iterations, preset, polygon, points, jump_distance,
                   prev_vertex, new_vertex, draws, current_point, i,
                   reference_point, output, refs, calls>>

-----------------------------------------------------------------------------
(* The presets, up to their call of chaos_game *)

\* The literal 0.5, as the decimal digits after the point.
HalfJump == <<5>>

\* The literal 0.66666666667, as the decimal digits after the point.
VicsekJump == <<6, 6, 6, 6, 6, 6, 6, 6, 6, 6, 7>>

\* The side length every preset passes: 100.0.
SideLength == 100

sierpinski_triangle ==
    /\ pc = "main"
    /\ main_match(nth(args, 1)) = "sierpinski_triangle"
    /\ LET triangle == new_equilateral(Const(SideLength))
       IN  /\ polygon' = triangle
           /\ points' = Polygon_points(triangle)
    /\ preset' = "sierpinski_triangle"
    /\ jump_distance' = HalfJump
    /\ pc' = "chaos_game"
    /\ UNCHANGED <<args, iterations, prev_vertex, new_vertex, draws,
                   current_point, i, reference_point, output, refs, calls,
                   panic_message>>

square_one ==
    /\ pc = "main"
    /\ main_match(nth(args, 1)) = "square_one"
    /\ LET sq == square(Const(SideLength))
           pts == Polygon_points(sq)
       IN  /\ polygon' = sq
           /\ points' = pts
           /\ \E v \in Range(pts) : prev_vertex' = v
    /\ preset' = "square_one"
    /\ jump_distance' = HalfJump
    /\ pc' = "chaos_game"
    /\ UNCHANGED <<args, iterations, new_vertex, draws, current_point, i,
                   reference_point, output, refs, calls, panic_message>>

square_two ==
    /\ pc = "main"
    /\ main_match(nth(args, 1)) = "square_two"
    /\ LET sq == square(Const(SideLength))
           pts == Polygon_points(sq)
       IN  /\ polygon' = sq
           /\ points' = pts
           /\ \E v \in Range(pts) : prev_vertex' = v
    /\ preset' = "square_two"
    /\ jump_distance' = HalfJump
    /\ pc' = "chaos_game"
    /\ UNCHANGED <<args, iterations, new_vertex, draws, current_point, i,
                   reference_point, output, refs, calls, panic_message>>

vicsek_fractal ==
    /\ pc = "main"
    /\ main_match(nth(args, 1)) = "vicsek_fractal"
    /\ LET sq == square(Const(SideLength))
           corners == Polygon_points(sq)
           pts == Append(corners, midpoint(corners[1], corners[3]))
       IN  /\ polygon' = sq
           /\ points' = pts
           /\ \E v \in Range(pts) : prev_vertex' = v
    /\ preset' = "vicsek_fractal"
    /\ jump_distance' = VicsekJump
    /\ pc' = "chaos_game"
    /\ UNCHANGED <<args, iterations, new_vertex, draws, current_point, i,
                   reference_point, output, refs, calls, panic_message>>

-----------------------------------------------------------------------------
(* Polygon::chaos_game *)

\* println!("{} {}", x, y): the two numbers with one space between them.
println(p) == <<p.x, " ", p.y>>

\* An inclusive range, 0..=iterations.
in_range_inclusive(k, n) == k <= n

\* for _ in 0..iterations: the body runs while the counter is in the range.
in_range(k, n) == k < n

\* The game started on a vertex: points() where the source has
\* medial_points().
chaos_game_start_at_vertex ==
    /\ pc = "chaos_game"
    /\ \E m \in Range(Polygon_points(polygon)) : current_point' = m
    /\ i' = 0
    /\ pc' = "loop"
    /\ UNCHANGED <<args, iterations, preset, polygon, points, jump_distance,
                   prev_vertex, new_vertex, draws, reference_point, output,
                   refs, calls, panic_message>>

chaos_game_start ==
    /\ pc = "chaos_game"
    /\ \E m \in Range(medial_points(polygon)) : current_point' = m
    /\ i' = 0
    /\ pc' = "loop"
    /\ UNCHANGED <<args, iterations, preset, polygon, points, jump_distance,
                   prev_vertex, new_vertex, draws, reference_point, output,
                   refs, calls, panic_message>>

chaos_game_emit ==
    /\ pc = "loop"
    /\ in_range(i, iterations)
    /\ output' = Append(output, println(current_point))
    /\ pc' = "call"
    /\ UNCHANGED <<args, iterations, preset, polygon, points, jump_distance,
                   prev_vertex, new_vertex, draws, current_point, i,
                   reference_point, refs, calls, panic_message>>

chaos_game_call ==
    /\ pc = "call"
    /\ calls' = calls + 1
    /\ draws' = 0
    /\ pc' = "next_point"
    /\ UNCHANGED <<args, iterations, preset, polygon, points, jump_distance,
                   prev_vertex, new_vertex, current_point, i, reference_point,
                   output, refs, panic_message>>

chaos_game_jump ==
    /\ pc = "jump"
    /\ current_point' = jump_towards(current_point, reference_point, Distance)
    /\ i' = i + 1
    /\ pc' = "loop"
    /\ UNCHANGED <<args, iterations, preset, polygon, points, jump_distance,
                   prev_vertex, new_vertex, draws, reference_point, output,
                   refs, calls, panic_message>>

chaos_game_return ==
    /\ pc = "loop"
    /\ ~in_range(i, iterations)
    /\ pc' = "done"
    /\ UNCHANGED <<args, iterations, preset, polygon, points, jump_distance,
                   prev_vertex, new_vertex, draws, current_point, i,
                   reference_point, output, refs, calls, panic_message>>

-----------------------------------------------------------------------------
(* The presets' closures: one action is one draw *)

\* The closure hands v back to chaos_game.
Returns(v) ==
    /\ reference_point' = v
    /\ refs' = Append(refs, v)
    /\ pc' = "jump"

Drawn == draws' = Min(draws + 1, MaxDraws)

sierpinski_closure ==
    /\ pc = "next_point"
    /\ preset = "sierpinski_triangle"
    /\ \E v \in Range(points) : Returns(v)
    /\ Drawn
    /\ UNCHANGED <<args, iterations, preset, polygon, points, jump_distance,
                   prev_vertex, new_vertex, current_point, i, output, calls,
                   panic_message>>

\* == for the first != of the condition.
square_one_accepts_equal_x(new, prev) == new.x = prev.x \/ new.y /= prev.y

\* The drawn vertex compared with itself: no draw is ever accepted.
square_one_accepts_self(new, prev) == new.x /= new.x \/ new.y /= new.y

\* The if of square_one's loop.
square_one_accepts(new, prev) == new.x /= prev.x \/ new.y /= prev.y

\* != for the first == of the condition.
square_two_accepts_other_x(new, prev) == new.x /= prev.x \/ new.y = prev.y

\* The if of square_two's loop.
square_two_accepts(new, prev) == new.x = prev.x \/ new.y = prev.y

\* The rule of square_one put into vicsek_fractal's loop.
vicsek_rejects_repeat(new, prev) == new.x /= prev.x \/ new.y /= prev.y

\* vicsek_fractal's loop has no if: it breaks on every draw.
vicsek_accepts(new, prev) == TRUE

\* One turn of a closure's loop that draws v, under the preset's condition.
LoopTurn(v, accepted) ==
    /\ pc = "next_point"
    /\ new_vertex' = v
    /\ Drawn
    /\ IF accepted
       THEN Returns(v)
       ELSE UNCHANGED <<reference_point, refs, pc>>
    /\ UNCHANGED <<args, iterations, preset, polygon, points, jump_distance,
                   current_point, i, output, calls, panic_message>>

square_one_turn(v) ==
    /\ preset = "square_one"
    /\ LoopTurn(v, square_one_accepts(v, prev_vertex))
    /\ prev_vertex' = IF square_one_accepts(v, prev_vertex)
                      THEN v ELSE prev_vertex

square_two_turn(v) ==
    /\ preset = "square_two"
    /\ LoopTurn(v, square_two_accepts(v, prev_vertex))
    /\ prev_vertex' = IF square_two_accepts(v, prev_vertex)
                      THEN v ELSE prev_vertex

vicsek_turn(v) ==
    /\ preset = "vicsek_fractal"
    /\ LoopTurn(v, vicsek_accepts(v, prev_vertex))
    /\ UNCHANGED prev_vertex

square_one_closure == \E v \in Range(points) : square_one_turn(v)

square_two_closure == \E v \in Range(points) : square_two_turn(v)

vicsek_closure == \E v \in Range(points) : vicsek_turn(v)

-----------------------------------------------------------------------------
(* The specifications *)

Init ==
    /\ args \in ArgVectors
    /\ iterations \in 0..MaxIterations
    /\ pc = "main"
    /\ preset = "none"
    /\ polygon = NoPolygon
    /\ points = <<>>
    /\ jump_distance = <<>>
    /\ prev_vertex = NoPoint
    /\ new_vertex = NoPoint
    /\ draws = 0
    /\ current_point = NoPoint
    /\ i = 0
    /\ reference_point = NoPoint
    /\ output = <<>>
    /\ refs = <<>>
    /\ calls = 0
    /\ panic_message = <<>>

Next ==
    \/ main_panic
    \/ sierpinski_triangle
    \/ square_one
    \/ square_two
    \/ vicsek_fractal
    \/ chaos_game_start
    \/ chaos_game_emit
    \/ chaos_game_call
    \/ chaos_game_jump
    \/ chaos_game_return
    \/ sierpinski_closure
    \/ square_one_closure
    \/ square_two_closure
    \/ vicsek_closure

Spec == Init /\ [][Next]_vars

\* The runs of the two presets whose closures reject draws.
SquaresInit ==
    /\ Init
    /\ main_match(nth(args, 1)) \in {"square_one", "square_two"}

SquaresNext ==
    \/ square_one
    \/ square_two
    \/ chaos_game_start
    \/ chaos_game_emit
    \/ chaos_game_call
    \/ chaos_game_jump
    \/ chaos_game_return
    \/ square_one_closure
    \/ square_two_closure

\* A draw that the closure's condition accepts.
AcceptedDraw ==
    \E v \in Range(points) :
        \/ square_one_accepts(v, prev_vertex) /\ square_one_turn(v)
        \/ square_two_accepts(v, prev_vertex) /\ square_two_turn(v)

\* Every step but a rejected draw.
Progress ==
    \/ square_one
    \/ square_two
    \/ chaos_game_start
    \/ chaos_game_emit
    \/ chaos_game_call
    \/ chaos_game_jump
    \/ chaos_game_return
    \/ AcceptedDraw

\* The process keeps running, and the uniform draws of points.choose do not
\* avoid the acceptable candidates for ever.
FairSpec == SquaresInit /\ [][SquaresNext]_vars /\ WF_vars(Progress)

-----------------------------------------------------------------------------
(* Reading the numbers of a state *)

\* The value of a constant.
Val(p) == p[1]

RECURSIVE Pow(_, _)
Pow(b, e) == IF e = 0 THEN 1 ELSE b * Pow(b, e - 1)

RECURSIVE GCD(_, _)
GCD(a, b) == IF b = 0 THEN a ELSE GCD(b, a % b)

RECURSIVE DigitsValue(_)
DigitsValue(ds) ==
    IF ds = <<>> THEN 0
    ELSE 10 * DigitsValue(SubSeq(ds, 1, Len(ds) - 1)) + ds[Len(ds)]

\* The fraction a decimal literal 0.ds stands for, in lowest terms.
JumpNum(ds) == DigitsValue(ds) \div GCD(DigitsValue(ds), Pow(10, Len(ds)))

JumpDen(ds) == Pow(10, Len(ds)) \div GCD(DigitsValue(ds), Pow(10, Len(ds)))

\* The denominator that clears the fractions of p at distance num/den.
Scale(p, den) == Pow(den, Len(p) - 1)

RECURSIVE ScaledSum(_, _, _, _)
ScaledSum(p, num, den, k) ==
    IF k = 0 THEN 0
    ELSE p[k] * Pow(num, k - 1) * Pow(den, Len(p) - k)
             + ScaledSum(p, num, den, k - 1)

\* The value of p at distance num/den, times Scale(p, den).
Scaled(p, num, den) == ScaledSum(p, num, den, Len(p))

\* lo <= p <= hiNum/hiDen at the run's jump distance.
Between(p, lo, hiNum, hiDen) ==
    LET num == JumpNum(jump_distance)
        den == JumpDen(jump_distance)
    IN  /\ lo * Scale(p, den) <= Scaled(p, num, den)
        /\ Scaled(p, num, den) * hiDen <= hiNum * Scale(p, den)

\* The point a printed line shows.
PointOf(line) == [x |-> line[1], y |-> line[3]]

\* Twice the signed area of the triangle a, b, p (constant points).
Cross(a, b, p) ==
    (Val(b.x) - Val(a.x)) * (Val(p.y) - Val(a.y))
        - (Val(b.y) - Val(a.y)) * (Val(p.x) - Val(a.x))

\* The edges of a polygon given by its vertex list.
Edges(pts) == {<<pts[k], pts[(k % Len(pts)) + 1]>> : k \in 1..Len(pts)}

\* p is in the convex hull of the convex polygon pts, boundary included.
InHull(p, pts) ==
    \/ \A e \in Edges(pts) : Cross(e[1], e[2], p) >= 0
    \/ \A e \in Edges(pts) : Cross(e[1], e[2], p) <= 0

\* p is in the interior of the convex hull of the convex polygon pts.
StrictlyInside(p, pts) ==
    \/ \A e \in Edges(pts) : Cross(e[1], e[2], p) > 0
    \/ \A e \in Edges(pts) : Cross(e[1], e[2], p) < 0

\* The square of the distance of two constant points.
DistSq(p, q) ==
    (Val(p.x) - Val(q.x)) * (Val(p.x) - Val(q.x))
        + (Val(p.y) - Val(q.y)) * (Val(p.y) - Val(q.y))

Finished == pc \in {"done", "panicked"}

-----------------------------------------------------------------------------
(* The claims *)

\* C1: a run with iteration count N never has more than N points emitted,
\* and has exactly N emitted when chaos_game returns (none when N = 0).
EmitsExactlyN ==
    /\ Len(output) <= iterations
    /\ pc = "done" => Len(output) = iterations

\* A run of at least two iterations has finished.
EmitsExactlyNWitness ==
    /\ pc = "done"
    /\ iterations >= 2
    /\ Len(output) = iterations

\* C2: in square_one, two reference points returned by consecutive calls
\* of the closure differ in x or in y.
SquareOneNeverRepeats ==
    preset = "square_one" =>
        \A k \in 1..(Len(refs) - 1) :
            refs[k].x /= refs[k + 1].x \/ refs[k].y /= refs[k + 1].y

\* The closure returned a second vertex after rejecting a draw.
SquareOneNeverRepeatsWitness ==
    /\ preset = "square_one"
    /\ pc = "jump"
    /\ Len(refs) >= 2
    /\ draws >= 2

\* C3: in square_two, two reference points returned by consecutive calls
\* of the closure share x or share y, so neither is the diagonal opposite
\* of the other.
SquareTwoSharesCoordinate ==
    preset = "square_two" =>
        \A k \in 1..(Len(refs) - 1) :
            refs[k].x = refs[k + 1].x \/ refs[k].y = refs[k + 1].y

\* The closure returned a second vertex after rejecting a draw.
SquareTwoSharesCoordinateWitness ==
    /\ preset = "square_two"
    /\ pc = "jump"
    /\ Len(refs) >= 2
    /\ draws >= 2

\* The box [0, 100] x [0, 100.001].
InBox(p) == Between(p.x, 0, 100, 1) /\ Between(p.y, 0, 100001, 1000)

\* C4: in sierpinski_triangle every emitted point, and the current point,
\* has 0 <= x <= 100 and 0 <= y <= 100.001.
SierpinskiInBox ==
    preset = "sierpinski_triangle" =>
        /\ \A k \in 1..Len(output) : InBox(PointOf(output[k]))
        /\ pc \in {"loop", "call", "next_point", "jump", "done"}
               => InBox(current_point)

\* Three points were emitted, the last one off the x axis.
SierpinskiInBoxWitness ==
    /\ preset = "sierpinski_triangle"
    /\ Len(output) >= 3
    /\ ~Between(output[3][3], 0, 0, 1)

\* C5: a recognized selector runs its own preset, no argument runs
\* sierpinski_triangle, and any other first argument panics with a message
\* naming it, runs no preset and prints nothing.
Dispatched ==
    pc /= "main" =>
        LET cmd == IF Len(args) >= 2 THEN args[2] ELSE "sierpinski-triangle"
        IN  /\ cmd = "sierpinski-triangle" => preset = "sierpinski_triangle"
            /\ cmd = "square-one" => preset = "square_one"
            /\ cmd = "square-two" => preset = "square_two"
            /\ cmd = "vicsek" => preset = "vicsek_fractal"
            /\ cmd \notin Selectors =>
                   /\ pc = "panicked"
                   /\ panic_message[1] = cmd
                   /\ preset = "none"
                   /\ polygon = NoPolygon
                   /\ output = <<>>
            /\ cmd \in Selectors => pc /= "panicked" /\ panic_message = <<>>

\* main panicked on the selector foo.
DispatchedWitness ==
    /\ pc = "panicked"
    /\ args[2] = "foo"
    /\ panic_message = <<"foo", " is not yet implemented">>

\* C6 as stated: every medial point of the square lies strictly inside the
\* convex hull of its vertices.
MedialStrictlyInside ==
    "d" \in DOMAIN polygon =>
        \A k \in 1..Len(medial_points(polygon)) :
            StrictlyInside(medial_points(polygon)[k], Polygon_points(polygon))

\* C6 as amended: every medial point of a polygon the program builds lies
\* in the convex hull of its vertices, on the boundary of the hull and not
\* in its interior.
MedialOnBoundary ==
    preset /= "none" =>
        \A k \in 1..Len(medial_points(polygon)) :
            /\ InHull(medial_points(polygon)[k], Polygon_points(polygon))
            /\ ~StrictlyInside(medial_points(polygon)[k],
                               Polygon_points(polygon))

\* chaos_game took a medial point of the square as its first point.
MedialOnBoundaryWitness ==
    /\ "d" \in DOMAIN polygon
    /\ pc = "loop"
    /\ i = 0
    /\ current_point \in Range(medial_points(polygon))

\* C7 as stated: the three sides of sierpinski_triangle's triangle are 100.
TriangleIsEquilateral ==
    preset = "sierpinski_triangle" =>
        /\ DistSq(polygon.a, polygon.b) = 100 * 100
        /\ DistSq(polygon.b, polygon.c) = 100 * 100
        /\ DistSq(polygon.c, polygon.a) = 100 * 100

\* C8: the first emitted point is a medial point, every later one is the
\* jump of the one before it to the reference point returned after it,
\* the closure is called once per iteration, and the jump to the last
\* reference point is computed and not emitted.
EmitsBeforeAdvancing ==
    /\ Len(output) >= 1 =>
           PointOf(output[1]) \in Range(medial_points(polygon))
    /\ \A k \in 1..(Len(output) - 1) :
           output[k + 1] =
               println(jump_towards(PointOf(output[k]), refs[k], Distance))
    /\ calls \in {i, i + 1}
    /\ Len(refs) \in {calls, calls - 1}
    /\ Len(output) \in {i, i + 1}
    /\ pc = "done" =>
           /\ calls = iterations
           /\ Len(refs) = iterations
           /\ Len(output) = iterations
           /\ iterations >= 1 =>
                  current_point =
                      jump_towards(PointOf(output[iterations]),
                                   refs[iterations], Distance)

\* A run of three iterations has finished.
EmitsBeforeAdvancingWitness ==
    /\ pc = "done"
    /\ iterations = 3
    /\ calls = 3
    /\ Len(output) = 3

\* C9: in vicsek_fractal every call of the closure returns its first draw,
\* whatever prev_vertex is: any of the five candidates can be returned
\* next, and none is ever rejected.
VicsekNeverRejects ==
    preset = "vicsek_fractal" =>
        /\ Len(points) = 5
        /\ pc = "next_point" =>
               /\ draws = 0
               /\ \A v \in Range(points) :
                      ENABLED (vicsek_turn(v) /\ reference_point' = v)
        /\ pc = "jump" => draws = 1 /\ reference_point = new_vertex

\* The closure returned the vertex held in prev_vertex twice in a row.
VicsekNeverRejectsWitness ==
    /\ preset = "vicsek_fractal"
    /\ pc = "jump"
    /\ Len(refs) >= 2
    /\ refs[Len(refs)] = refs[Len(refs) - 1]
    /\ refs[Len(refs)] = prev_vertex

\* Some candidate passes the condition of the closure's loop.
CanExit ==
    /\ pc = "next_point" /\ preset = "square_one" =>
           \E v \in Range(points) : square_one_accepts(v, prev_vertex)
    /\ pc = "next_point" /\ preset = "square_two" =>
           \E v \in Range(points) : square_two_accepts(v, prev_vertex)

\* C10: in square_one and square_two some candidate is acceptable whenever
\* the closure is drawing, every call of the closure returns, and the run
\* ends.
RejectionLoopsExit ==
    /\ [](CanExit)
    /\ (pc = "next_point") ~> (pc = "jump")
    /\ <>Finished

\* A run of square_one or square_two ended after its last call rejected
\* a draw.
RejectionLoopsExitWitness ==
    /\ pc = "done"
    /\ preset \in {"square_one", "square_two"}
    /\ iterations >= 2
    /\ draws >= 2

====
